---- MODULE Spec2Model ----
(***************************************************************************)
(* Fraud-case manager: role based authorisation and the case workflow.     *)
(* The store is the three tables of server/src/db/schema.ts; every handler *)
(* of server/src/handlers is one action over that store.  Handlers throw   *)
(* Error(message); the model records which throw ended the call.           *)
(* updated_at is a wall-clock stamp no handler reads back; created_at is   *)
(* kept for case_escalations only, where a query orders by it.             *)
(***************************************************************************)
EXTENDS Integers, Sequences, FiniteSets, TLC

VARIABLES cases,      \* fraud_cases rows, in insertion order (id = serial)
          ledger,     \* case_escalations rows, in insertion order
          esc,        \* an escalateCase call suspended at one of its awaits
          last,       \* the latest completed call: handler, input, outcome
          clock,      \* the database's now(), the default of created_at
          flight      \* assignCase / updateFraudCase calls suspended between
                      \* their reads and their write

vars == <<cases, ledger, esc, last, clock, flight>>

----------------------------------------------------------------------------
(* Values *)

Null  == 0              \* SQL NULL / JS null in an id column
Undef == -1             \* an optional numeric input field that is absent
NoVal == "undefined"    \* an optional enum/text input field that is absent

userRoleSchema     == {"admin", "investigator", "analyst", "viewer"}
caseStatusSchema   == {"open", "in_progress", "escalated", "resolved", "closed"}
casePrioritySchema == {"low", "medium", "high", "critical"}
permActions        == {"create", "read", "update", "delete", "escalate", "assign"}
permResources      == {"case", "user", "escalation"}

\* The users table.  Users are registered by a flow outside the handlers
\* modelled here and no handler changes a role, so the table is fixed:
\* one user of every role.
usersTable == [u \in 1..4 |->
                 CASE u = 1 -> "admin"
                   [] u = 2 -> "investigator"
                   [] u = 3 -> "analyst"
                   [] u = 4 -> "viewer"]

UserIds   == DOMAIN usersTable
GhostUser == 5                       \* an id with no row in users
AnyUser   == UserIds \cup {GhostUser}

\* Bounds of the explored workloads
MaxEsc == 1                          \* escalation rows the ledger may hold
MaxHist == 2                         \* the same, where histories are read
MaxClock == 2                        \* the latest instant of the clock

NoCase == 9                          \* a case id with no row in fraud_cases

----------------------------------------------------------------------------
(* Store queries *)

CaseExists(id) == id \in 1..Len(cases)
UserExists(u)  == u \in UserIds

RowByTxid(txid) == {i \in 1..Len(cases) : cases[i].txid = txid}

\* a plausible slip: the constraint is looked at when a row is inserted only
uniqueViolation_InsertOnly(txid, self) == self = Null /\ RowByTxid(txid) # {}

\* the UNIQUE constraint on fraud_cases.txid: writing txid into row self (Null
\* for a row being inserted) is refused when another row holds it
uniqueViolation(txid, self) == RowByTxid(txid) \ {self} # {}

Idle == [pc |-> "idle"]

\* the requests that may be in flight together
Slots == {1, 2}

\* the response of the call just served; out is the list a list handler
\* returned, again tells that an assignCase call repeats the call before it
DoneOut(op, input, res, out) ==
    last' = [op |-> op, input |-> input, res |-> res, out |-> out,
             again |-> /\ op = "assignCase"
                       /\ last.op = op
                       /\ last.input = input]

Done(op, input, res) == DoneOut(op, input, res, <<>>)

TypeOK ==
    /\ \A i \in 1..Len(cases) :
          /\ cases[i].id = i
          /\ cases[i].status \in caseStatusSchema
          /\ cases[i].priority \in casePrioritySchema
    /\ \A k \in 1..Len(ledger) : ledger[k].id = k

Init ==
    /\ cases = <<>>
    /\ ledger = <<>>
    /\ esc = Idle
    /\ clock = 1
    /\ flight = [p \in Slots |-> Idle]
    /\ last = [op |-> "none", input |-> <<>>, res |-> "ok", out |-> <<>>,
               again |-> FALSE]

----------------------------------------------------------------------------
(* createFraudCase *)

\* a plausible slip: the priority is left to the default of the column
createFraudCase_DefaultPriority(input) ==
    /\ UNCHANGED <<ledger, esc, clock, flight>>
    /\ IF ~UserExists(input.created_by)
         THEN /\ Done("createFraudCase", input, "CreatorNotFound")
              /\ UNCHANGED cases
       ELSE IF uniqueViolation(input.txid, Null)
         THEN /\ Done("createFraudCase", input, "DuplicateTxid")
              /\ UNCHANGED cases
       ELSE /\ cases' = Append(cases,
                   [id          |-> Len(cases) + 1,
                    txid        |-> input.txid,
                    description |-> input.description,
                    status      |-> "open",
                    priority    |-> "medium",
                    assigned_to |-> Null,
                    created_by  |-> input.created_by])
            /\ Done("createFraudCase", input, "ok")

\* a plausible slip: the creator is looked up after the insert
createFraudCase_LateCheck(input) ==
    /\ UNCHANGED <<ledger, esc, clock, flight>>
    /\ IF uniqueViolation(input.txid, Null)
         THEN /\ Done("createFraudCase", input, "DuplicateTxid")
              /\ UNCHANGED cases
       ELSE /\ cases' = Append(cases,
                   [id          |-> Len(cases) + 1,
                    txid        |-> input.txid,
                    description |-> input.description,
                    status      |-> "open",
                    priority    |-> input.priority,
                    assigned_to |-> Null,
                    created_by  |-> input.created_by])
            /\ Done("createFraudCase", input,
                    IF UserExists(input.created_by) THEN "ok" ELSE "CreatorNotFound")

createFraudCase(input) ==
    /\ UNCHANGED <<ledger, esc, clock, flight>>
    /\ IF ~UserExists(input.created_by)
         THEN /\ Done("createFraudCase", input, "CreatorNotFound")
              /\ UNCHANGED cases
       ELSE IF uniqueViolation(input.txid, Null)
         THEN /\ Done("createFraudCase", input, "DuplicateTxid")
              /\ UNCHANGED cases
       ELSE /\ cases' = Append(cases,
                   [id          |-> Len(cases) + 1,
                    txid        |-> input.txid,
                    description |-> input.description,
                    status      |-> "open",
                    priority    |-> input.priority,
                    assigned_to |-> Null,
                    created_by  |-> input.created_by])
            /\ Done("createFraudCase", input, "ok")

----------------------------------------------------------------------------
(* assignCase *)

\* a plausible slip: an admin may be given a case as well
validRoles_WithAdmin == {"investigator", "analyst", "admin"}

validRoles      == {"investigator", "analyst"}
\* a plausible slip: every role may assign
authorizedRoles_WithViewer == {"admin", "investigator", "analyst", "viewer"}
authorizedRoles == {"admin", "investigator", "analyst"}

\* a plausible slip: only an open case is moved to in_progress
assignData_KeepStatus(row, assignedTo) ==
    [row EXCEPT !.assigned_to = assignedTo,
                !.status = IF @ = "open" THEN "in_progress" ELSE @]

\* a plausible slip: assigning to the current assignee takes the case away
assignData_Toggle(row, assignedTo) ==
    [row EXCEPT !.assigned_to = IF @ = assignedTo THEN Null ELSE assignedTo,
                !.status = "in_progress"]

\* the SET clause of the assignment
assignData(row, assignedTo) ==
    [row EXCEPT !.assigned_to = assignedTo, !.status = "in_progress"]

assignCase(input) ==
    /\ UNCHANGED <<ledger, esc, clock, flight>>
    /\ IF ~CaseExists(input.caseId)
         THEN /\ Done("assignCase", input, "CaseNotFound")
              /\ UNCHANGED cases
       ELSE IF ~UserExists(input.assignedTo)
         THEN /\ Done("assignCase", input, "AssigneeNotFound")
              /\ UNCHANGED cases
       ELSE IF usersTable[input.assignedTo] \notin validRoles
         THEN /\ Done("assignCase", input, "AssigneeRole")
              /\ UNCHANGED cases
       ELSE IF ~UserExists(input.assignedBy)
         THEN /\ Done("assignCase", input, "AssignerNotFound")
              /\ UNCHANGED cases
       ELSE IF usersTable[input.assignedBy] \notin authorizedRoles
         THEN /\ Done("assignCase", input, "AssignerRole")
              /\ UNCHANGED cases
       ELSE /\ cases' = [cases EXCEPT ![input.caseId] =
                           assignData(@, input.assignedTo)]
            /\ Done("assignCase", input, "ok")

----------------------------------------------------------------------------
(* updateFraudCase *)

\* a plausible slip: the creator may update as well
canUpdate_Creator(user, caseRecord) ==
    \/ usersTable[user] = "admin"
    \/ /\ usersTable[user] \in {"investigator", "analyst"}
       /\ user \in {caseRecord.assigned_to, caseRecord.created_by}

canUpdate(user, caseRecord) ==
    \/ usersTable[user] = "admin"
    \/ usersTable[user] = "investigator" /\ caseRecord.assigned_to = user
    \/ usersTable[user] = "analyst" /\ caseRecord.assigned_to = user

\* a plausible slip: the updating user is written into created_by
updateData_Owner(input, row) ==
    [row EXCEPT
       !.txid        = IF input.txid # NoVal THEN input.txid ELSE @,
       !.description = IF input.description # NoVal THEN input.description ELSE @,
       !.status      = IF input.status # NoVal THEN input.status ELSE @,
       !.priority    = IF input.priority # NoVal THEN input.priority ELSE @,
       !.assigned_to = IF input.assigned_to # Undef THEN input.assigned_to ELSE @,
       !.created_by  = input.userId]

\* a plausible slip: txid is written whether or not the input carries one
updateData_TxidAlways(input, row) ==
    [row EXCEPT
       !.txid        = input.txid,
       !.description = IF input.description # NoVal THEN input.description ELSE @,
       !.status      = IF input.status # NoVal THEN input.status ELSE @,
       !.priority    = IF input.priority # NoVal THEN input.priority ELSE @,
       !.assigned_to = IF input.assigned_to # Undef THEN input.assigned_to ELSE @]

\* a plausible slip: an absent assigned_to is written as null
updateData_ResetAssignee(input, row) ==
    [row EXCEPT
       !.txid        = IF input.txid # NoVal THEN input.txid ELSE @,
       !.description = IF input.description # NoVal THEN input.description ELSE @,
       !.status      = IF input.status # NoVal THEN input.status ELSE @,
       !.priority    = IF input.priority # NoVal THEN input.priority ELSE @,
       !.assigned_to = IF input.assigned_to # Undef THEN input.assigned_to ELSE Null]

\* the SET clause built from the fields present in the input
updateData(input, row) ==
    [row EXCEPT
       !.txid        = IF input.txid # NoVal THEN input.txid ELSE @,
       !.description = IF input.description # NoVal THEN input.description ELSE @,
       !.status      = IF input.status # NoVal THEN input.status ELSE @,
       !.priority    = IF input.priority # NoVal THEN input.priority ELSE @,
       !.assigned_to = IF input.assigned_to # Undef THEN input.assigned_to ELSE @]

\* a plausible slip: the new assignee is not looked up
updateFraudCase_NoAssigneeCheck(input) ==
    /\ UNCHANGED <<ledger, esc, clock, flight>>
    /\ IF ~CaseExists(input.id)
         THEN /\ Done("updateFraudCase", input, "CaseNotFound")
              /\ UNCHANGED cases
       ELSE IF ~UserExists(input.userId)
         THEN /\ Done("updateFraudCase", input, "UserNotFound")
              /\ UNCHANGED cases
       ELSE IF ~canUpdate(input.userId, cases[input.id])
         THEN /\ Done("updateFraudCase", input, "Insufficient")
              /\ UNCHANGED cases
       ELSE IF input.txid # NoVal /\ uniqueViolation(input.txid, input.id)
         THEN /\ Done("updateFraudCase", input, "DuplicateTxid")
              /\ UNCHANGED cases
       ELSE /\ cases' = [cases EXCEPT ![input.id] = updateData(input, @)]
            /\ Done("updateFraudCase", input, "ok")

updateFraudCase(input) ==
    /\ UNCHANGED <<ledger, esc, clock, flight>>
    /\ IF ~CaseExists(input.id)
         THEN /\ Done("updateFraudCase", input, "CaseNotFound")
              /\ UNCHANGED cases
       ELSE IF ~UserExists(input.userId)
         THEN /\ Done("updateFraudCase", input, "UserNotFound")
              /\ UNCHANGED cases
       ELSE IF ~canUpdate(input.userId, cases[input.id])
         THEN /\ Done("updateFraudCase", input, "Insufficient")
              /\ UNCHANGED cases
       ELSE IF input.assigned_to \notin {Undef, Null} /\ ~UserExists(input.assigned_to)
         THEN /\ Done("updateFraudCase", input, "AssigneeNotFound")
              /\ UNCHANGED cases
       ELSE IF input.txid # NoVal /\ uniqueViolation(input.txid, input.id)
         THEN /\ Done("updateFraudCase", input, "DuplicateTxid")
              /\ UNCHANGED cases
       ELSE /\ cases' = [cases EXCEPT ![input.id] = updateData(input, @)]
            /\ Done("updateFraudCase", input, "ok")

----------------------------------------------------------------------------
(* escalateCase *)

\* a plausible slip: without new_status the record keeps the case's status
escalationData_KeepStatus(input, existingCase) ==
    [id                |-> Len(ledger) + 1,
     case_id           |-> input.case_id,
     escalated_by      |-> input.escalated_by,
     escalated_to      |-> IF input.escalated_to \in {Undef, Null}
                             THEN Null ELSE input.escalated_to,
     previous_status   |-> existingCase.status,
     new_status        |-> IF input.new_status # NoVal
                             THEN input.new_status ELSE existingCase.status,
     previous_priority |-> existingCase.priority,
     new_priority      |-> input.new_priority,
     reason            |-> input.reason,
     created_at        |-> clock]

\* escalationData: the row inserted into case_escalations
escalationData(input, existingCase) ==
    [id                |-> Len(ledger) + 1,
     case_id           |-> input.case_id,
     escalated_by      |-> input.escalated_by,
     escalated_to      |-> IF input.escalated_to \in {Undef, Null}
                             THEN Null ELSE input.escalated_to,
     previous_status   |-> existingCase.status,
     new_status        |-> IF input.new_status # NoVal
                             THEN input.new_status ELSE "escalated",
     previous_priority |-> existingCase.priority,
     new_priority      |-> input.new_priority,
     reason            |-> input.reason,
     created_at        |-> clock]

\* a plausible slip: the case takes the status the record defaults to
escalateUpdateData_Forced(input, row) ==
    [row EXCEPT
       !.priority    = input.new_priority,
       !.status      = IF input.new_status # NoVal THEN input.new_status
                                                   ELSE "escalated",
       !.assigned_to = IF input.escalated_to # Undef THEN input.escalated_to ELSE @]

\* a plausible slip: the escalation leaves the assignee to assignCase
escalateUpdateData_KeepAssignee(input, row) ==
    [row EXCEPT
       !.priority    = input.new_priority,
       !.status      = IF input.new_status # NoVal THEN input.new_status ELSE @]

\* the SET clause of the update of fraud_cases
escalateUpdateData(input, row) ==
    [row EXCEPT
       !.priority    = input.new_priority,
       !.status      = IF input.new_status # NoVal THEN input.new_status ELSE @,
       !.assigned_to = IF input.escalated_to # Undef THEN input.escalated_to ELSE @]

\* one request served on its own: select, insert and update with no other
\* request in between
escalateCase(input) ==
    /\ UNCHANGED <<esc, clock, flight>>
    /\ IF ~CaseExists(input.case_id)
         THEN /\ Done("escalateCase", input, "CaseNotFound")
              /\ UNCHANGED <<cases, ledger>>
       ELSE /\ ledger' = Append(ledger, escalationData(input, cases[input.case_id]))
            /\ cases' = [cases EXCEPT ![input.case_id] = escalateUpdateData(input, @)]
            /\ Done("escalateCase", input, "ok")

\* the length of the reason texts the workloads use
strLen(s) ==
    CASE s = "" -> 0
      [] s = "too short" -> 9
      [] s = "needs senior review" -> 19

\* reason: z.string().min(10)
MinReason == 10

\* escalateCaseInputSchema, as far as the reason goes
escalateCaseInputSchema(input) == strLen(input.reason) >= MinReason

\* the escalateCase procedure of the router: the input is parsed against the
\* schema, and the handler is called with what passed
escalateCaseRoute(input) ==
    IF escalateCaseInputSchema(input)
      THEN escalateCase(input)
      ELSE /\ Done("escalateCase", input, "BadRequest")
           /\ UNCHANGED <<cases, ledger, esc, clock, flight>>

----------------------------------------------------------------------------
(* closeCase *)

\* a plausible slip: an escalated case may be closed as well
closable_Loose(fraudCase) == fraudCase.status \in {"resolved", "escalated"}

\* a plausible slip: every case that is not open any more may be closed
closable_NotOpen(fraudCase) == fraudCase.status # "open"

closable(fraudCase) == fraudCase.status = "resolved"

\* a plausible slip: the creator may close as well
canClose_Creator(user, fraudCase) ==
    \/ usersTable[user] = "admin"
    \/ /\ user \in {fraudCase.assigned_to, fraudCase.created_by}
       /\ usersTable[user] \in {"investigator", "analyst"}

canClose(user, fraudCase) ==
    \/ usersTable[user] = "admin"
    \/ /\ fraudCase.assigned_to = user
       /\ usersTable[user] \in {"investigator", "analyst"}

\* a plausible slip: closing a case clears its escalation history
closeCase_Purge(input) ==
    /\ UNCHANGED <<esc, clock, flight>>
    /\ IF ~UserExists(input.userId)
         THEN /\ Done("closeCase", input, "UserNotFound")
              /\ UNCHANGED <<cases, ledger>>
       ELSE IF ~CaseExists(input.caseId)
         THEN /\ Done("closeCase", input, "CaseNotFound")
              /\ UNCHANGED <<cases, ledger>>
       ELSE IF ~closable(cases[input.caseId])
         THEN /\ Done("closeCase", input, "NotResolved")
              /\ UNCHANGED <<cases, ledger>>
       ELSE IF ~canClose(input.userId, cases[input.caseId])
         THEN /\ Done("closeCase", input, "Insufficient")
              /\ UNCHANGED <<cases, ledger>>
       ELSE /\ cases' = [cases EXCEPT ![input.caseId] = [@ EXCEPT !.status = "closed"]]
            /\ ledger' = SelectSeq(ledger, LAMBDA r : r.case_id # input.caseId)
            /\ Done("closeCase", input, "ok")

closeCase(input) ==
    /\ UNCHANGED <<ledger, esc, clock, flight>>
    /\ IF ~UserExists(input.userId)
         THEN /\ Done("closeCase", input, "UserNotFound")
              /\ UNCHANGED cases
       ELSE IF ~CaseExists(input.caseId)
         THEN /\ Done("closeCase", input, "CaseNotFound")
              /\ UNCHANGED cases
       ELSE IF ~closable(cases[input.caseId])
         THEN /\ Done("closeCase", input, "NotResolved")
              /\ UNCHANGED cases
       ELSE IF ~canClose(input.userId, cases[input.caseId])
         THEN /\ Done("closeCase", input, "Insufficient")
              /\ UNCHANGED cases
       ELSE /\ cases' = [cases EXCEPT ![input.caseId] = [@ EXCEPT !.status = "closed"]]
            /\ Done("closeCase", input, "ok")

----------------------------------------------------------------------------
(* checkPermissions, getUserRole *)

\* a plausible slip: a user that is not found counts as a viewer
getUserRole_Viewer(userId) ==
    IF UserExists(userId) THEN usersTable[userId] ELSE "viewer"

getUserRole(userId) == IF UserExists(userId) THEN usersTable[userId] ELSE "null"

\* getUserRole with its catch: a select that fails is answered with null
getUserRoleOn(db, userId) == IF db = "down" THEN "null" ELSE getUserRole(userId)

\* a plausible slip: the viewer row without read on escalation
permissions_ViewerNoLedger ==
    [investigator |->
        [case       |-> {"create", "read", "update", "escalate", "assign"},
         user       |-> {"read"},
         escalation |-> {"create", "read"}],
     analyst |->
        [case       |-> {"read", "update", "escalate"},
         user       |-> {"read"},
         escalation |-> {"create", "read"}],
     viewer |->
        [case       |-> {"read"},
         user       |-> {"read"},
         escalation |-> {}]]

\* the permissions matrix of the roles other than admin
permissions ==
    [investigator |->
        [case       |-> {"create", "read", "update", "escalate", "assign"},
         user       |-> {"read"},
         escalation |-> {"create", "read"}],
     analyst |->
        [case       |-> {"read", "update", "escalate"},
         user       |-> {"read"},
         escalation |-> {"create", "read"}],
     viewer |->
        [case       |-> {"read"},
         user       |-> {"read"},
         escalation |-> {"read"}]]

\* the decision of checkPermissions once the role was looked up
rolePermits(userRole, check) ==
    IF userRole = "null" THEN FALSE
    ELSE IF userRole = "admin" THEN TRUE
    ELSE IF userRole \notin DOMAIN permissions THEN FALSE
    ELSE IF check.resource \notin DOMAIN permissions[userRole] THEN FALSE
    ELSE check.action \in permissions[userRole][check.resource]

checkPermissions(check) == rolePermits(getUserRole(check.user_id), check)

Bool(b) == IF b THEN "true" ELSE "false"

checkPermissionsCall(check) ==
    /\ UNCHANGED <<cases, ledger, esc, clock, flight>>
    /\ Done("checkPermissions", check, Bool(checkPermissions(check)))

\* checkPermissions and getUserRole served while the database answers (db is
\* "up") or while its selects fail ("down")
checkPermissionsOn(db, check) ==
    /\ UNCHANGED <<cases, ledger, esc, clock, flight>>
    /\ Done("checkPermissions",
            [user_id |-> check.user_id, action |-> check.action,
             resource |-> check.resource, db |-> db],
            Bool(rolePermits(getUserRoleOn(db, check.user_id), check)))

getUserRoleCall(db, userId) ==
    /\ UNCHANGED <<cases, ledger, esc, clock, flight>>
    /\ Done("getUserRole", [userId |-> userId, db |-> db],
            getUserRoleOn(db, userId))

----------------------------------------------------------------------------
(* getFraudCaseById, getFraudCaseByTxid *)

\* a plausible slip: analysts read every case by id
visibleById_AnalystAll(userRole, userId, caseData) ==
    \/ userRole \in {"admin", "viewer", "analyst"}
    \/ /\ userRole = "investigator"
       /\ caseData.created_by = userId \/ caseData.assigned_to = userId

\* the permission logic of getFraudCaseById
visibleById(userRole, userId, caseData) ==
    \/ userRole \in {"admin", "viewer"}
    \/ /\ userRole \in {"investigator", "analyst"}
       /\ caseData.created_by = userId \/ caseData.assigned_to = userId

\* a plausible slip: a hidden case is refused with the permission error, as
\* getFraudCaseByTxid does
getFraudCaseById_Throws(id, userId) ==
    IF ~CaseExists(id) THEN "null"
    ELSE IF userId = Undef THEN "ok"
    ELSE IF ~UserExists(userId) THEN "UserNotFound"
    ELSE IF visibleById(usersTable[userId], userId, cases[id]) THEN "ok"
    ELSE "Insufficient"

\* the outcome: "ok" returns the row, "null" returns null
getFraudCaseById(id, userId) ==
    IF ~CaseExists(id) THEN "null"
    ELSE IF userId = Undef THEN "ok"
    ELSE IF ~UserExists(userId) THEN "null"
    ELSE IF visibleById(usersTable[userId], userId, cases[id]) THEN "ok"
    ELSE "null"

getFraudCaseByIdCall(input) ==
    /\ UNCHANGED <<cases, ledger, esc, clock, flight>>
    /\ Done("getFraudCaseById", input, getFraudCaseById(input.id, input.userId))

\* a plausible slip: an investigator reads by transaction id only the cases
\* the investigator created or is assigned to, as getFraudCaseById has it
canRead_InvOwn(user, fraudCase) ==
    \/ usersTable[user] = "admin"
    \/ usersTable[user] = "analyst"
    \/ /\ usersTable[user] \in {"viewer", "investigator"}
       /\ fraudCase.created_by = user \/ fraudCase.assigned_to = user

\* a plausible slip: every known user reads every case by transaction id
canRead_Everyone(user, fraudCase) ==
    usersTable[user] \in {"admin", "investigator", "analyst", "viewer"}

\* canRead of getFraudCaseByTxid
canRead(user, fraudCase) ==
    \/ usersTable[user] = "admin"
    \/ usersTable[user] = "investigator"
    \/ usersTable[user] = "analyst"
    \/ /\ usersTable[user] = "viewer"
       /\ fraudCase.created_by = user \/ fraudCase.assigned_to = user

getFraudCaseByTxid(txid, userId) ==
    IF RowByTxid(txid) = {} THEN "null"
    ELSE LET fraudCase == cases[CHOOSE i \in RowByTxid(txid) : TRUE] IN
         IF userId = Undef THEN "ok"
         ELSE IF ~UserExists(userId) THEN "UserNotFound"
         ELSE IF ~canRead(userId, fraudCase) THEN "Insufficient"
         ELSE "ok"

getFraudCaseByTxidCall(input) ==
    /\ UNCHANGED <<cases, ledger, esc, clock, flight>>
    /\ Done("getFraudCaseByTxid", input,
            getFraudCaseByTxid(input.txid, input.userId))

----------------------------------------------------------------------------
(* getFraudCases *)

\* caseFiltersSchema with every field absent
NoFilter == [status |-> NoVal, priority |-> NoVal, assigned_to |-> Undef,
             created_by |-> Undef, txid |-> NoVal]

\* SQL equality on a nullable id column: NULL equals nothing
sqlEq(column, value) == column # Null /\ column = value

\* the conditions pushed for the filters: status, priority, created_by and
\* txid when truthy, assigned_to when not undefined
filterConditions(filters, row) ==
    /\ filters.status # NoVal => row.status = filters.status
    /\ filters.priority # NoVal => row.priority = filters.priority
    /\ filters.assigned_to # Undef => sqlEq(row.assigned_to, filters.assigned_to)
    /\ filters.created_by \notin {Undef, 0} => sqlEq(row.created_by, filters.created_by)
    /\ filters.txid \notin {NoVal, ""} => row.txid = filters.txid

\* a plausible slip: a viewer also lists the cases the viewer created
roleConditions_ViewerCreated(userId, row) ==
    CASE usersTable[userId] \in {"viewer", "analyst"} ->
            sqlEq(row.assigned_to, userId) \/ sqlEq(row.created_by, userId)
      [] OTHER -> TRUE

\* the condition pushed for the role of the user
roleConditions(userId, row) ==
    CASE usersTable[userId] = "viewer"  -> sqlEq(row.assigned_to, userId)
      [] usersTable[userId] = "analyst" ->
            sqlEq(row.assigned_to, userId) \/ sqlEq(row.created_by, userId)
      [] OTHER -> TRUE

\* the ids of the rows the query returns (it has no ORDER BY)
fraudCasesOf(filters, userId) ==
    {i \in 1..Len(cases) :
        /\ filterConditions(filters, cases[i])
        /\ userId # Undef => roleConditions(userId, cases[i])}

getFraudCases(input) ==
    /\ UNCHANGED <<cases, ledger, esc, clock, flight>>
    /\ IF input.userId # Undef /\ ~UserExists(input.userId)
         THEN Done("getFraudCases", input, "UserNotFound")
         ELSE DoneOut("getFraudCases", input, "ok",
                      fraudCasesOf(input.filters, input.userId))

----------------------------------------------------------------------------
(* getCaseEscalations *)

\* a plausible slip: the history is open to every role, as the matrix has it
mayViewEscalations_All(userId, caseId) == usersTable[userId] \in userRoleSchema

\* a plausible slip: a viewer may read the history of an own case
mayViewEscalations_Own(userId, caseId) ==
    \/ usersTable[userId] # "viewer"
    \/ cases[caseId].created_by = userId
    \/ cases[caseId].assigned_to = userId

\* the role gate of getCaseEscalations
mayViewEscalations(userId, caseId) == usersTable[userId] # "viewer"

\* what checkPermissions answers on reading escalations for the user
MayReadEscalationsByMatrix(u) ==
    checkPermissions([user_id |-> u, action |-> "read", resource |-> "escalation"])

\* the rows of the case, in the order in which they were inserted
escalationsOf(caseId) == SelectSeq(ledger, LAMBDA r : r.case_id = caseId)

\* the results the query may produce: the rows of the case under ORDER BY
\* created_at, which leaves the order of rows with equal created_at open
orderedByCreatedAt(caseId) ==
    LET rows == escalationsOf(caseId)
        n    == Len(rows)
    IN  {[k \in 1..n |-> rows[f[k]]] :
            f \in {g \in [1..n -> 1..n] :
                      /\ \A a, b \in 1..n : g[a] = g[b] => a = b
                      /\ \A a, b \in 1..n :
                            a < b => rows[g[a]].created_at <= rows[g[b]].created_at}}

getCaseEscalations(caseId, userId) ==
    IF ~CaseExists(caseId) THEN "CaseNotFound"
    ELSE IF userId = Undef THEN "ok"
    ELSE IF ~UserExists(userId) THEN "UserNotFound"
    ELSE IF ~mayViewEscalations(userId, caseId) THEN "Insufficient"
    ELSE "ok"

getCaseEscalationsCall(input) ==
    /\ UNCHANGED <<cases, ledger, esc, clock, flight>>
    /\ IF getCaseEscalations(input.caseId, input.userId) = "ok"
         THEN \E out \in orderedByCreatedAt(input.caseId) :
                 DoneOut("getCaseEscalations", input, "ok", out)
         ELSE Done("getCaseEscalations", input,
                   getCaseEscalations(input.caseId, input.userId))

\* time passes: a later insert gets a later created_at
tick ==
    /\ clock' = clock + 1
    /\ UNCHANGED <<cases, ledger, esc, last, flight>>

----------------------------------------------------------------------------
(* escalateCase as the database sees it: a select, an insert and an update, *)
(* each awaited, with no transaction around them                            *)

escalateSelect(input) ==
    /\ esc.pc = "idle"
    /\ UNCHANGED <<cases, ledger, clock, flight>>
    /\ IF ~CaseExists(input.case_id)
         THEN /\ Done("escalateCase", input, "CaseNotFound")
              /\ UNCHANGED esc
         ELSE /\ esc' = [pc |-> "selected", input |-> input,
                         existingCase |-> cases[input.case_id]]
              /\ UNCHANGED last

escalateInsert ==
    /\ esc.pc = "selected"
    /\ ledger' = Append(ledger, escalationData(esc.input, esc.existingCase))
    /\ esc' = [esc EXCEPT !.pc = "inserted"]
    /\ UNCHANGED <<cases, last, clock, flight>>

escalateUpdate ==
    /\ esc.pc = "inserted"
    /\ cases' = [cases EXCEPT ![esc.input.case_id] =
                    escalateUpdateData(esc.input, @)]
    /\ esc' = Idle
    /\ UNCHANGED <<ledger, clock, flight>>
    /\ Done("escalateCase", esc.input, "ok")

----------------------------------------------------------------------------
(* assignCase and updateFraudCase as the database sees them: the selects    *)
(* and the checks made on what they returned, then one update; other        *)
(* requests may be served in between                                        *)

callCase(call) ==
    IF call.op = "assignCase" THEN call.input.caseId ELSE call.input.id

\* the checks of assignCase after the case was found
assignOutcome(input) ==
    IF ~UserExists(input.assignedTo) THEN "AssigneeNotFound"
    ELSE IF usersTable[input.assignedTo] \notin validRoles THEN "AssigneeRole"
    ELSE IF ~UserExists(input.assignedBy) THEN "AssignerNotFound"
    ELSE IF usersTable[input.assignedBy] \notin authorizedRoles THEN "AssignerRole"
    ELSE "ok"

\* the checks of updateFraudCase on the row it selected
updateOutcome(input, caseRecord) ==
    IF ~UserExists(input.userId) THEN "UserNotFound"
    ELSE IF ~canUpdate(input.userId, caseRecord) THEN "Insufficient"
    ELSE IF input.assigned_to \notin {Undef, Null} /\ ~UserExists(input.assigned_to)
      THEN "AssigneeNotFound"
    ELSE "ok"

callOutcome(call, row) ==
    IF call.op = "assignCase" THEN assignOutcome(call.input)
                              ELSE updateOutcome(call.input, row)

\* the row the update statement of the call leaves
callData(call, row) ==
    IF call.op = "assignCase" THEN assignData(row, call.input.assignedTo)
                              ELSE updateData(call.input, row)

\* the selects and the checks of a call
beginCall(p, call) ==
    /\ flight[p].pc = "idle"
    /\ \A q \in Slots : flight[q].pc # "done"
    /\ UNCHANGED <<cases, ledger, esc, clock>>
    /\ IF ~CaseExists(callCase(call))
         THEN /\ Done(call.op, call.input, "CaseNotFound")
              /\ UNCHANGED flight
       ELSE IF callOutcome(call, cases[callCase(call)]) # "ok"
         THEN /\ Done(call.op, call.input, callOutcome(call, cases[callCase(call)]))
              /\ UNCHANGED flight
       ELSE /\ flight' = [flight EXCEPT ![p] =
                            [pc |-> "checked", call |-> call,
                             base |-> cases[callCase(call)]]]
            /\ UNCHANGED last

\* the update statement of a call that passed its checks
writeCall(p) ==
    /\ flight[p].pc = "checked"
    /\ UNCHANGED <<ledger, esc, clock>>
    /\ flight' = [flight EXCEPT ![p].pc = "done"]
    /\ LET call == flight[p].call IN
         IF /\ call.op = "updateFraudCase"
            /\ call.input.txid # NoVal
            /\ uniqueViolation(call.input.txid, callCase(call))
           THEN /\ Done(call.op, call.input, "DuplicateTxid")
                /\ UNCHANGED cases
           ELSE /\ cases' = [cases EXCEPT ![callCase(call)] = callData(call, @)]
                /\ Done(call.op, call.input, "ok")

\* the responses of the calls that were in flight together are delivered
respond ==
    /\ \E p \in Slots : flight[p].pc = "done"
    /\ \A p \in Slots : flight[p].pc # "checked"
    /\ flight' = [p \in Slots |-> Idle]
    /\ UNCHANGED <<cases, ledger, esc, last, clock>>

----------------------------------------------------------------------------
(* The workload of Spec: requests served one at a time, one transaction id *)

CreateInputs ==
    [txid : {"TX1"}, description : {"d1"}, priority : {"medium"},
     created_by : AnyUser]

AssignInputs ==
    [caseId : {1}, assignedTo : AnyUser, assignedBy : AnyUser]
    \cup {[caseId |-> NoCase, assignedTo |-> 2, assignedBy |-> 1]}

NoUpdate == [txid |-> NoVal, description |-> NoVal, status |-> NoVal,
             priority |-> NoVal, assigned_to |-> Undef]

\* the fields an update request of this workload sets
UpdateFields ==
    {[NoUpdate EXCEPT !.status = "resolved"],
     [NoUpdate EXCEPT !.status = "open"],
     [NoUpdate EXCEPT !.assigned_to = Null],
     [NoUpdate EXCEPT !.assigned_to = GhostUser]}

UpdateInput(c, u, f) ==
    [id |-> c, userId |-> u, txid |-> f.txid, description |-> f.description,
     status |-> f.status, priority |-> f.priority, assigned_to |-> f.assigned_to]

UpdateInputs ==
    {UpdateInput(1, u, f) : u \in AnyUser, f \in UpdateFields}
    \cup {UpdateInput(NoCase, 1, [NoUpdate EXCEPT !.status = "open"])}

EscalateInput(c, to, st, pr) ==
    [case_id |-> c, escalated_by |-> 2, escalated_to |-> to, new_status |-> st,
     new_priority |-> pr, reason |-> "needs senior review"]

EscalateInputs ==
    {EscalateInput(1, Undef, NoVal, "critical"),
     EscalateInput(1, 3, "escalated", "critical"),
     EscalateInput(NoCase, Undef, NoVal, "critical")}

CloseInputs ==
    [caseId : {1}, userId : AnyUser] \cup {[caseId |-> NoCase, userId |-> 1]}

Next ==
    \/ \E input \in CreateInputs : createFraudCase(input)
    \/ \E input \in AssignInputs : assignCase(input)
    \/ \E input \in UpdateInputs : updateFraudCase(input)
    \/ \E input \in EscalateInputs :
          /\ Len(ledger) < MaxEsc
          /\ escalateCase(input)
    \/ \E input \in CloseInputs : closeCase(input)

Spec == Init /\ [][Next]_vars

----------------------------------------------------------------------------
(* The workload of SpecRead: the read handlers over cases of every creator  *)
(* and assignee                                                             *)

ReadUsers == AnyUser \cup {Undef}

PermissionChecks ==
    [user_id : AnyUser, action : permActions, resource : permResources]

ByIdInputs   == [id : {1, NoCase}, userId : ReadUsers]
ByTxidInputs == [txid : {"TX1", "TX9"}, userId : ReadUsers]
HistoryInputs == [caseId : {1, NoCase}, userId : ReadUsers]

AdminUpdates ==
    {UpdateInput(1, 1, [NoUpdate EXCEPT !.assigned_to = a]) : a \in {Null, 4}}

NextRead ==
    \/ \E input \in CreateInputs : createFraudCase(input)
    \/ \E input \in [caseId : {1}, assignedTo : {2, 3}, assignedBy : {1}] :
          assignCase(input)
    \/ \E input \in AdminUpdates : updateFraudCase(input)
    \/ /\ Len(ledger) < MaxEsc
       /\ escalateCase(EscalateInput(1, Undef, NoVal, "critical"))
    \/ \E check \in PermissionChecks : checkPermissionsCall(check)
    \/ \E input \in ByIdInputs : getFraudCaseByIdCall(input)
    \/ \E input \in ByTxidInputs : getFraudCaseByTxidCall(input)
    \/ \E input \in HistoryInputs : getCaseEscalationsCall(input)

SpecRead == Init /\ [][NextRead]_vars

----------------------------------------------------------------------------
(* The workload of SpecTx: several transaction ids, created and rewritten   *)

TxCreates ==
    [txid : {"TX1", "TX2"}, description : {"d1"}, priority : {"medium"},
     created_by : {2, GhostUser}]

TxUpdates ==
    {UpdateInput(c, u, f) :
        c \in {1, 2}, u \in {1, 3},
        f \in {[NoUpdate EXCEPT !.txid = "TX2"],
               [NoUpdate EXCEPT !.txid = "TX3"],
               [NoUpdate EXCEPT !.status = "resolved"]}}

NextTx ==
    \/ \E input \in TxCreates : createFraudCase(input)
    \/ \E input \in TxUpdates : updateFraudCase(input)
    \/ assignCase([caseId |-> 1, assignedTo |-> 2, assignedBy |-> 1])
    \/ /\ Len(ledger) < MaxEsc
       /\ escalateCase(EscalateInput(1, Undef, NoVal, "critical"))
    \/ closeCase([caseId |-> 1, userId |-> 1])

SpecTx == Init /\ [][NextTx]_vars

----------------------------------------------------------------------------
(* The workload of SpecList: two cases of several creators and assignees,   *)
(* looked up and listed by every kind of user                               *)

ListCreates ==
    [txid : {"TX1", "TX2"}, description : {"d1"}, priority : {"medium"},
     created_by : {3, 4}]

ListUpdates ==
    {UpdateInput(c, 1, [NoUpdate EXCEPT !.assigned_to = a]) :
        c \in {1, 2}, a \in {2, 4}}
    \cup {UpdateInput(1, 1, [NoUpdate EXCEPT !.status = "resolved"])}

ListFilters ==
    {NoFilter,
     [NoFilter EXCEPT !.status = "open"],
     [NoFilter EXCEPT !.assigned_to = 4],
     [NoFilter EXCEPT !.created_by = 4],
     [NoFilter EXCEPT !.created_by = 0],
     [NoFilter EXCEPT !.txid = "TX2"],
     [NoFilter EXCEPT !.txid = ""]}

ListInputs == [filters : ListFilters, userId : ReadUsers]

NextList ==
    \/ \E input \in ListCreates : createFraudCase(input)
    \/ \E input \in ListUpdates : updateFraudCase(input)
    \/ \E input \in [id : {1, 2}, userId : {1, 2}] : getFraudCaseByIdCall(input)
    \/ \E input \in [txid : {"TX1"}, userId : {1, 2}] : getFraudCaseByTxidCall(input)
    \/ \E input \in ListInputs : getFraudCases(input)

SpecList == Init /\ [][NextList]_vars

----------------------------------------------------------------------------
(* The workload of SpecLedger: two cases escalated several times, at the    *)
(* same instant or at later ones, and their histories read                  *)

LedgerCreates ==
    [txid : {"TX1", "TX2"}, description : {"d1"}, priority : {"medium"},
     created_by : {2}]

LedgerEscalations ==
    {EscalateInput(c, Undef, NoVal, pr) : c \in {1, 2}, pr \in {"high", "critical"}}

NextLedger ==
    \/ \E input \in LedgerCreates : createFraudCase(input)
    \/ \E input \in LedgerEscalations :
          /\ Len(ledger) < MaxHist
          /\ escalateCase(input)
    \/ /\ clock < MaxClock
       /\ tick
    \/ \E input \in [caseId : {1, 2}, userId : {1, 4}] :
          getCaseEscalationsCall(input)

SpecLedger == Init /\ [][NextLedger]_vars

----------------------------------------------------------------------------
(* The workload of SpecRace: assignCase and updateFraudCase calls on one    *)
(* case, up to two of them in flight together                               *)

RaceCalls ==
    {[op |-> "assignCase",
      input |-> [caseId |-> 1, assignedTo |-> a, assignedBy |-> 1]] : a \in {2, 3}}
    \cup {[op |-> "updateFraudCase",
           input |-> UpdateInput(1, u, [NoUpdate EXCEPT !.status = "resolved"])] :
             u \in {1, 2}}
    \cup {[op |-> "updateFraudCase",
           input |-> UpdateInput(1, 1, [NoUpdate EXCEPT !.assigned_to = Null])],
          [op |-> "assignCase",
           input |-> [caseId |-> NoCase, assignedTo |-> 2, assignedBy |-> 1]]}

NextRace ==
    \/ \E input \in [txid : {"TX1"}, description : {"d1"}, priority : {"medium"},
                      created_by : {2}] : createFraudCase(input)
    \/ \E p \in Slots, call \in RaceCalls : beginCall(p, call)
    \/ \E p \in Slots : writeCall(p)
    \/ respond

SpecRace == Init /\ [][NextRace]_vars

----------------------------------------------------------------------------
(* The workload of SpecIntake: cases of several priorities, descriptions    *)
(* and creators, assigned by and to every kind of user                      *)

IntakeCreates ==
    [txid : {"TX1", "TX2"}, description : {"d1", "d2"}, priority : {"low", "high"},
     created_by : {3, GhostUser}]

IntakeAssigns ==
    [caseId : {1}, assignedTo : AnyUser, assignedBy : AnyUser]
    \cup {[caseId |-> NoCase, assignedTo |-> 2, assignedBy |-> 1]}

NextIntake ==
    \/ \E input \in IntakeCreates : createFraudCase(input)
    \/ \E input \in IntakeAssigns : assignCase(input)
    \/ updateFraudCase(UpdateInput(1, 1, [NoUpdate EXCEPT !.status = "resolved"]))

SpecIntake == Init /\ [][NextIntake]_vars

----------------------------------------------------------------------------
(* The workload of SpecEdit: partial updates of one case, of one field or   *)
(* of several, beside a second case                                         *)

EditFields ==
    {[NoUpdate EXCEPT !.description = "d2"],
     [NoUpdate EXCEPT !.priority = "high", !.status = "resolved"],
     [NoUpdate EXCEPT !.assigned_to = GhostUser, !.status = "resolved"],
     [NoUpdate EXCEPT !.assigned_to = Null],
     [NoUpdate EXCEPT !.assigned_to = 3, !.description = "d2"],
     [NoUpdate EXCEPT !.txid = "TX3"],
     NoUpdate}

EditInputs == {UpdateInput(1, u, f) : u \in {1, 2, 4}, f \in EditFields}

NextEdit ==
    \/ \E input \in [txid : {"TX1", "TX2"}, description : {"d1"},
                      priority : {"medium"}, created_by : {2}] :
          createFraudCase(input)
    \/ assignCase([caseId |-> 1, assignedTo |-> 2, assignedBy |-> 1])
    \/ \E input \in EditInputs : updateFraudCase(input)

SpecEdit == Init /\ [][NextEdit]_vars

----------------------------------------------------------------------------
(* The workload of SpecReason: escalations with reasons of several lengths, *)
(* sent through the router or given to the handler as the tests do          *)

ReasonEscalations ==
    {[EscalateInput(c, to, NoVal, "critical") EXCEPT !.reason = r] :
        c \in {1, NoCase}, to \in {Undef, 3},
        r \in {"", "too short", "needs senior review"}}

NextReason ==
    \/ \E input \in CreateInputs : createFraudCase(input)
    \/ \E input \in ReasonEscalations :
          /\ Len(ledger) < MaxEsc
          /\ escalateCaseRoute(input)
    \/ \E input \in ReasonEscalations :
          /\ Len(ledger) < MaxEsc
          /\ escalateCase(input)

SpecReason == Init /\ [][NextReason]_vars

----------------------------------------------------------------------------
(* The workload of SpecPerm: permission checks and role lookups for known   *)
(* and unknown users, with the database answering or failing                *)

NextPerm ==
    \/ \E db \in {"up", "down"}, check \in PermissionChecks :
          checkPermissionsOn(db, check)
    \/ \E db \in {"up", "down"}, userId \in AnyUser : getUserRoleCall(db, userId)

SpecPerm == Init /\ [][NextPerm]_vars

----------------------------------------------------------------------------
(* The workload of SpecStatus: the ways the status and the assignee of a    *)
(* case are written: assignment, update, escalation and closing             *)

StatusUpdates ==
    {UpdateInput(1, u, [NoUpdate EXCEPT !.status = s]) :
        u \in {1, 2}, s \in {"resolved", "closed"}}

StatusEscalations ==
    {EscalateInput(1, to, st, "critical") :
        to \in {Undef, Null, 3}, st \in {NoVal, "closed"}}

NextStatus ==
    \/ createFraudCase([txid |-> "TX1", description |-> "d1",
                        priority |-> "medium", created_by |-> 2])
    \/ assignCase([caseId |-> 1, assignedTo |-> 2, assignedBy |-> 1])
    \/ \E input \in StatusUpdates : updateFraudCase(input)
    \/ \E input \in StatusEscalations :
          /\ Len(ledger) < MaxEsc
          /\ escalateCase(input)
    \/ \E input \in [caseId : {1}, userId : {1, 2, 4}] : closeCase(input)

SpecStatus == Init /\ [][NextStatus]_vars

----------------------------------------------------------------------------
(* The workload of SpecConc: one escalateCase in flight, statement by       *)
(* statement, while other requests read                                     *)

ConcEscalations ==
    {EscalateInput(1, to, st, pr) :
        to \in {Undef, 3}, st \in {NoVal, "resolved"}, pr \in {"high", "critical"}}
    \cup {EscalateInput(NoCase, Undef, NoVal, "critical")}

NextConc ==
    \/ \E input \in CreateInputs : createFraudCase(input)
    \/ \E input \in ConcEscalations :
          /\ Len(ledger) < MaxEsc
          /\ escalateSelect(input)
    \/ escalateInsert
    \/ escalateUpdate
    \/ \E input \in [id : {1}, userId : {1, Undef}] : getFraudCaseByIdCall(input)
    \/ \E input \in [caseId : {1}, userId : {1, 4}] : getCaseEscalationsCall(input)

SpecConc == Init /\ [][NextConc]_vars

----------------------------------------------------------------------------
(* Properties *)

RoleOf(u) == usersTable[u]

\* the step just taken completed a call of handler op
Called(op) == last'.op = op

\* C1 as stated: escalateCase on an existing case without new_status always
\* leaves the case with status 'escalated', and the appended record's
\* previous_status is the case's status immediately before the call.
C1_EscalateForcesEscalated ==
    [][(Called("escalateCase") /\ last'.res = "ok"
          /\ last'.input.new_status = NoVal)
        => /\ cases'[last'.input.case_id].status = "escalated"
           /\ ledger'[Len(ledger')].previous_status
                 = cases[last'.input.case_id].status]_vars

\* C1 amended: escalateCase on an existing case without new_status leaves the
\* case's status as it was before the call; the appended record carries that
\* status as previous_status and 'escalated' as new_status.
C1_EscalateKeepsStatus ==
    [][(Called("escalateCase") /\ last'.res = "ok"
          /\ last'.input.new_status = NoVal)
        => /\ cases'[last'.input.case_id].status
                 = cases[last'.input.case_id].status
           /\ Len(ledger') = Len(ledger) + 1
           /\ ledger'[Len(ledger')].previous_status
                 = cases[last'.input.case_id].status
           /\ ledger'[Len(ledger')].new_status = "escalated"]_vars

C1_Witness ==
    /\ last.op = "escalateCase" /\ last.res = "ok"
    /\ last.input.new_status = NoVal
    /\ cases[last.input.case_id].status = "resolved"
    /\ ledger[Len(ledger)].previous_status = "resolved"

\* the user may close the case as far as role and assignment go
AuthorizedFor(u, c) ==
    \/ RoleOf(u) = "admin"
    \/ RoleOf(u) \in {"investigator", "analyst"} /\ c.assigned_to = u

\* C2: closeCase by an existing, authorized user succeeds only when the case's
\* status is exactly 'resolved'; on an open, in_progress, escalated or closed
\* case it fails with the invalid-state error and the case is left unchanged.
C2_CloseOnlyResolved ==
    [][(Called("closeCase") /\ CaseExists(last'.input.caseId)
          /\ UserExists(last'.input.userId)
          /\ AuthorizedFor(last'.input.userId, cases[last'.input.caseId]))
        => IF cases[last'.input.caseId].status = "resolved"
             THEN /\ last'.res = "ok"
                  /\ cases'[last'.input.caseId].status = "closed"
             ELSE /\ last'.res = "NotResolved"
                  /\ cases' = cases /\ ledger' = ledger]_vars

C2_Witness ==
    /\ last.op = "closeCase" /\ last.res = "NotResolved"
    /\ CaseExists(last.input.caseId)
    /\ cases[last.input.caseId].status = "escalated"
    /\ RoleOf(last.input.userId) = "analyst"
    /\ cases[last.input.caseId].assigned_to = last.input.userId

\* C3: closed is terminal: once a case's status is 'closed' no call of
\* assignCase, updateFraudCase, escalateCase or closeCase changes it again.
C3_ClosedIsTerminal ==
    [][\A i \in 1..Len(cases) :
          cases[i].status = "closed" => cases'[i].status = "closed"]_vars

\* C4: assignCase with an existing case, an existing assignee of role
\* investigator or analyst and an existing assigner of role admin,
\* investigator or analyst always ends with status 'in_progress' and
\* assigned_to equal to the assignee, whatever the prior status.
C4_AssignForcesInProgress ==
    [][(Called("assignCase") /\ CaseExists(last'.input.caseId)
          /\ UserExists(last'.input.assignedTo)
          /\ RoleOf(last'.input.assignedTo) \in {"investigator", "analyst"}
          /\ UserExists(last'.input.assignedBy)
          /\ RoleOf(last'.input.assignedBy) \in {"admin", "investigator", "analyst"})
        => /\ last'.res = "ok"
           /\ cases'[last'.input.caseId].status = "in_progress"
           /\ cases'[last'.input.caseId].assigned_to = last'.input.assignedTo]_vars

\* an assignment that took a case with an escalation on record, by an analyst
C4_Witness ==
    /\ last.op = "assignCase" /\ last.res = "ok"
    /\ RoleOf(last.input.assignedBy) = "analyst"
    /\ cases[last.input.caseId].status = "in_progress"
    /\ cases[last.input.caseId].assigned_to = last.input.assignedTo
    /\ Len(ledger) > 0

\* C5: escalateCase is atomic: in every state another request can observe,
\* the case update and the escalation record of an escalation are both
\* visible or both absent.  With create and escalate as the only writers,
\* the newest record of a case then always agrees with the case's priority.
C5_EscalateAtomic ==
    \A c \in 1..Len(cases) :
       LET rows == escalationsOf(c) IN
       rows # <<>> => cases[c].priority = rows[Len(rows)].new_priority

\* the matrix as the specification tabulates it
MatrixEntry(role, resource, action) ==
    CASE role = "admin" -> TRUE
      [] role = "investigator" ->
            \/ resource = "case"
                 /\ action \in {"create", "read", "update", "escalate", "assign"}
            \/ resource = "user" /\ action = "read"
            \/ resource = "escalation" /\ action \in {"create", "read"}
      [] role = "analyst" ->
            \/ resource = "case" /\ action \in {"read", "update", "escalate"}
            \/ resource = "user" /\ action = "read"
            \/ resource = "escalation" /\ action \in {"create", "read"}
      [] role = "viewer" -> action = "read"
      [] OTHER -> FALSE

\* C6: for every role, resource and action, checkPermissions for an existing
\* user of that role returns exactly the matrix entry; every combination
\* outside the matrix is denied.
C6_PermissionMatrix ==
    (last.op = "checkPermissions" /\ UserExists(last.input.user_id))
      => last.res = Bool(MatrixEntry(RoleOf(last.input.user_id),
                                     last.input.resource, last.input.action))

C6_Witness ==
    /\ last.op = "checkPermissions" /\ last.res = "true"
    /\ RoleOf(last.input.user_id) = "viewer"
    /\ last.input.resource = "escalation" /\ last.input.action = "read"

\* the user is neither the creator nor the assignee of the case
Stranger(u, c) == c.created_by # u /\ c.assigned_to # u

\* the case a lookup call of the latest step addressed, if there is one
LookedUp ==
    IF last.op = "getFraudCaseById"
      THEN IF CaseExists(last.input.id) THEN {cases[last.input.id]} ELSE {}
    ELSE IF last.op = "getFraudCaseByTxid"
      THEN {cases[i] : i \in {j \in 1..Len(cases) : cases[j].txid = last.input.txid}}
    ELSE {}

\* C7 as stated: a viewer or analyst who looks up an existing case by id or by
\* transaction id and is neither its creator nor its assignee gets the
\* not-found outcome and never the case data.
C7_StrangerGetsNotFound ==
    \A c \in LookedUp :
       (/\ UserExists(last.input.userId)
        /\ RoleOf(last.input.userId) \in {"viewer", "analyst"}
        /\ Stranger(last.input.userId, c))
         => last.res = "null"

\* C7 amended: looked up by id, an analyst who is neither creator nor assignee
\* gets the not-found outcome and never the case data, while a viewer gets the
\* case; looked up by transaction id, a viewer who is neither creator nor
\* assignee gets the permission error and never the case data, while an
\* analyst gets the case.
C7_StrangerPerHandler ==
    \A c \in LookedUp :
       (/\ UserExists(last.input.userId)
        /\ RoleOf(last.input.userId) \in {"viewer", "analyst"}
        /\ Stranger(last.input.userId, c))
         => last.res =
              IF last.op = "getFraudCaseById"
                THEN IF RoleOf(last.input.userId) = "analyst" THEN "null" ELSE "ok"
                ELSE IF RoleOf(last.input.userId) = "viewer" THEN "Insufficient"
                                                             ELSE "ok"

C7_Witness ==
    /\ last.op = "getFraudCaseById" /\ last.res = "null"
    /\ CaseExists(last.input.id)
    /\ UserExists(last.input.userId)
    /\ RoleOf(last.input.userId) = "analyst"
    /\ Stranger(last.input.userId, cases[last.input.id])
    /\ cases[last.input.id].assigned_to = 2

\* C8: getCaseEscalations on an existing case always fails with the permission
\* error for a viewer, creator or assignee of the case or not, and always
\* succeeds for an admin, an investigator or an analyst.
C8_HistoryGate ==
    (/\ last.op = "getCaseEscalations"
     /\ CaseExists(last.input.caseId)
     /\ UserExists(last.input.userId))
      => last.res = IF RoleOf(last.input.userId) = "viewer" THEN "Insufficient"
                                                            ELSE "ok"

\* a viewer who created the case and is assigned to it is refused
C8_Witness ==
    /\ last.op = "getCaseEscalations" /\ last.res = "Insufficient"
    /\ CaseExists(last.input.caseId)
    /\ cases[last.input.caseId].created_by = last.input.userId
    /\ cases[last.input.caseId].assigned_to = last.input.userId
    /\ escalationsOf(last.input.caseId) # <<>>

\* C9: createFraudCase succeeds only when the creator's role holds 'create'
\* on 'case' in the permission matrix (admin or investigator); a create by an
\* analyst or a viewer is rejected and persists no case.
C9_CreateNeedsPermission ==
    [][Called("createFraudCase")
        => IF /\ UserExists(last'.input.created_by)
              /\ RoleOf(last'.input.created_by) \in {"admin", "investigator"}
             THEN TRUE
             ELSE last'.res # "ok" /\ cases' = cases]_vars

\* C10 as stated: updateFraudCase on an existing case by an existing user
\* succeeds if and only if the user is an admin, or an investigator or analyst
\* who is the case's assignee; the creator gains nothing and a viewer always
\* gets the permission error.
C10_UpdateSucceedsIffPermitted ==
    [][(Called("updateFraudCase") /\ CaseExists(last'.input.id)
          /\ UserExists(last'.input.userId))
        => /\ last'.res = "ok"
                <=> AuthorizedFor(last'.input.userId, cases[last'.input.id])
           /\ RoleOf(last'.input.userId) = "viewer"
                => last'.res = "Insufficient"]_vars

\* the input names an assignee without a users row, or a txid of another case
UpdateInputRejected(input) ==
    \/ input.assigned_to \notin {Undef, Null} /\ input.assigned_to \notin UserIds
    \/ /\ input.txid # NoVal
       /\ \E i \in 1..Len(cases) : i # input.id /\ cases[i].txid = input.txid

\* C10 amended: updateFraudCase on an existing case by an existing user gets
\* the permission error if and only if the user is neither an admin nor an
\* investigator or analyst who is the case's assignee (the creator gains
\* nothing, a viewer is always refused); a permitted call succeeds unless its
\* input names a non-existent assignee or another case's txid.
C10_UpdatePermittedIffAssigned ==
    [][(Called("updateFraudCase") /\ CaseExists(last'.input.id)
          /\ UserExists(last'.input.userId))
        => /\ last'.res = "Insufficient"
                <=> ~AuthorizedFor(last'.input.userId, cases[last'.input.id])
           /\ last'.res = "ok"
                <=> /\ AuthorizedFor(last'.input.userId, cases[last'.input.id])
                    /\ ~UpdateInputRejected(last'.input)
           /\ last'.res # "ok" => cases' = cases]_vars

\* an analyst who created the case but is not its assignee is refused
C10_Witness ==
    /\ last.op = "updateFraudCase" /\ last.res = "Insufficient"
    /\ CaseExists(last.input.id)
    /\ RoleOf(last.input.userId) = "analyst"
    /\ cases[last.input.id].created_by = last.input.userId
    /\ cases[last.input.id].assigned_to = 2

C20_CreatedByNeverChanges ==
    [][/\ Len(cases') >= Len(cases)
       /\ \A i \in 1..Len(cases) : cases'[i].created_by = cases[i].created_by
       /\ (Called("createFraudCase") /\ last'.res = "ok")
            => /\ Len(cases') = Len(cases) + 1
               /\ cases'[Len(cases')].created_by = last'.input.created_by]_vars

\* a case that was updated by someone other than its creator, after it had
\* been assigned and escalated
C20_Witness ==
    /\ last.op = "updateFraudCase" /\ last.res = "ok"
    /\ cases[last.input.id].created_by # last.input.userId
    /\ cases[last.input.id].assigned_to = last.input.userId
    /\ Len(ledger) > 0

\* C13: assignCase is idempotent: when a successful assignCase call is
\* repeated at once with the same case, assignee and assigner, the second call
\* succeeds as well and leaves every modelled field of every case as the first
\* call left it: status in_progress, assigned_to the assignee.
C13_AssignIdempotent ==
    [][(Called("assignCase") /\ last'.again /\ last.res = "ok")
        => /\ last'.res = "ok"
           /\ cases' = cases
           /\ cases'[last'.input.caseId].status = "in_progress"
           /\ cases'[last'.input.caseId].assigned_to = last'.input.assignedTo]_vars

\* the same successful assignment was just made a second time
C13_Witness ==
    /\ last.op = "assignCase" /\ last.res = "ok" /\ last.again
    /\ cases[last.input.caseId].assigned_to = last.input.assignedTo
    /\ cases[last.input.caseId].status = "in_progress"

\* C18 as stated: case lookups do not leak existence: getFraudCaseById and
\* getFraudCaseByTxid either return the case or return null, and they return
\* null for an id or transaction id that does not exist; there is never a
\* distinguishable error.
C18_LookupsNeverForbid ==
    last.op \in {"getFraudCaseById", "getFraudCaseByTxid"}
      => /\ last.res \in {"ok", "null"}
         /\ LookedUp = {} => last.res = "null"

\* C18 amended: getFraudCaseById does not leak existence: it returns the case
\* or null, and null for an id that does not exist. getFraudCaseByTxid does:
\* it returns null for a transaction id that does not exist, but on an existing
\* case it fails with the user-not-found error for an unknown user id and with
\* the permission error for a viewer who is neither creator nor assignee, and
\* returns the case otherwise.
C18_OnlyByIdHides ==
    /\ last.op = "getFraudCaseById"
         => /\ last.res \in {"ok", "null"}
            /\ LookedUp = {} => last.res = "null"
    /\ last.op = "getFraudCaseByTxid"
         => \/ LookedUp = {} /\ last.res = "null"
            \/ \E c \in LookedUp :
                 last.res =
                   IF last.input.userId = Undef THEN "ok"
                   ELSE IF ~UserExists(last.input.userId) THEN "UserNotFound"
                   ELSE IF /\ RoleOf(last.input.userId) = "viewer"
                           /\ Stranger(last.input.userId, c)
                     THEN "Insufficient"
                   ELSE "ok"

\* a viewer who is neither creator nor assignee asked for an existing case by
\* its transaction id and was told that permission is missing
C18_Witness ==
    /\ last.op = "getFraudCaseByTxid" /\ last.res = "Insufficient"
    /\ UserExists(last.input.userId)
    /\ RoleOf(last.input.userId) = "viewer"
    /\ \E c \in LookedUp : Stranger(last.input.userId, c) /\ c.assigned_to # Null

\* no two rows of fraud_cases hold the same transaction id
TxidsDistinct ==
    \A i, j \in 1..Len(cases) : cases[i].txid = cases[j].txid => i = j

\* C12: transaction ids are globally unique: after every createFraudCase and
\* updateFraudCase call no two cases have the same txid; a create by an
\* existing user whose txid another case holds fails with the duplicate error,
\* a txid-changing update whose txid another case holds fails, and neither
\* adds or changes a row.
C12_TxidUnique ==
    [][/\ TxidsDistinct'
       /\ (/\ Called("createFraudCase")
           /\ UserExists(last'.input.created_by)
           /\ \E i \in 1..Len(cases) : cases[i].txid = last'.input.txid)
            => last'.res = "DuplicateTxid" /\ cases' = cases
       /\ (/\ Called("updateFraudCase")
           /\ \E i \in 1..Len(cases) :
                 i # last'.input.id /\ cases[i].txid = last'.input.txid)
            => last'.res # "ok" /\ cases' = cases]_vars

\* an admin's update that would give a second case the txid of another case
\* was refused as a duplicate
C12_Witness ==
    /\ last.op = "updateFraudCase" /\ last.res = "DuplicateTxid"
    /\ Len(cases) >= 2
    /\ \E i \in 1..Len(cases) : i # last.input.id /\ cases[i].txid = last.input.txid
    /\ cases[last.input.id].txid # last.input.txid

\* C19 as stated: a case's transaction id is immutable after creation: no
\* handler call changes the txid of an existing case.
C19_TxidImmutable ==
    [][\A i \in 1..Len(cases) : i <= Len(cases') /\ cases'[i].txid = cases[i].txid]_vars

\* C19 amended: the txid of an existing case changes only in a successful
\* updateFraudCase call on that case whose input carries a txid, and becomes
\* that txid; createFraudCase, assignCase, escalateCase, closeCase and an
\* update without a txid leave every existing txid as it was.
C19_TxidChangesOnlyByUpdate ==
    [][\A i \in 1..Len(cases) :
          /\ i <= Len(cases')
          /\ cases'[i].txid # cases[i].txid
               => /\ Called("updateFraudCase") /\ last'.res = "ok"
                  /\ last'.input.id = i
                  /\ last'.input.txid # NoVal
                  /\ cases'[i].txid = last'.input.txid]_vars

\* an update gave an assigned and escalated case another txid than the one it
\* was created with
C19_Witness ==
    /\ last.op = "updateFraudCase" /\ last.res = "ok"
    /\ last.input.txid = "TX3"
    /\ cases[last.input.id].txid = "TX3"
    /\ cases[last.input.id].assigned_to = 2
    /\ Len(ledger) > 0

\* the lookup or listing of the latest step was made by an admin or an
\* investigator
ByAdminOrInvestigator ==
    /\ last.op \in {"getFraudCaseById", "getFraudCaseByTxid", "getFraudCases"}
    /\ UserExists(last.input.userId)
    /\ RoleOf(last.input.userId) \in {"admin", "investigator"}

\* C16 as stated: admins and investigators have full read visibility: called
\* with an admin's or an investigator's id, getFraudCaseById and
\* getFraudCaseByTxid return every existing case and getFraudCases without
\* filters returns all cases, whoever created them or is assigned to them.
C16_AdminInvestigatorSeeAll ==
    ByAdminOrInvestigator
      => /\ last.op # "getFraudCases" => \A c \in LookedUp : last.res = "ok"
         /\ (last.op = "getFraudCases" /\ last.input.filters = NoFilter)
              => last.res = "ok" /\ last.out = 1..Len(cases)

\* C16 amended: admins have full read visibility in all three handlers, and
\* investigators have it in getFraudCaseByTxid and getFraudCases; but
\* getFraudCaseById returns null to an investigator who neither created the
\* case nor is assigned to it.
C16_InvestigatorByIdOwn ==
    ByAdminOrInvestigator
      => /\ last.op = "getFraudCaseByTxid" => \A c \in LookedUp : last.res = "ok"
         /\ last.op = "getFraudCaseById"
              => \A c \in LookedUp :
                    last.res = IF /\ RoleOf(last.input.userId) = "investigator"
                                  /\ Stranger(last.input.userId, c)
                                 THEN "null" ELSE "ok"
         /\ (last.op = "getFraudCases" /\ last.input.filters = NoFilter)
              => last.res = "ok" /\ last.out = 1..Len(cases)

\* an investigator who neither created the case nor is assigned to it asked
\* for it by id and got null
C16_Witness ==
    /\ last.op = "getFraudCaseById" /\ last.res = "null"
    /\ CaseExists(last.input.id)
    /\ RoleOf(last.input.userId) = "investigator"
    /\ Stranger(last.input.userId, cases[last.input.id])
    /\ cases[last.input.id].assigned_to = 4

\* the listing of the latest step was made by a viewer or an analyst
ByViewerOrAnalyst ==
    /\ last.op = "getFraudCases"
    /\ UserExists(last.input.userId)
    /\ RoleOf(last.input.userId) \in {"viewer", "analyst"}

\* the case satisfies every filter the input supplies
SatisfiesSupplied(filters, c) ==
    /\ filters.status # NoVal => c.status = filters.status
    /\ filters.priority # NoVal => c.priority = filters.priority
    /\ filters.assigned_to # Undef => c.assigned_to = filters.assigned_to
    /\ filters.created_by # Undef => c.created_by = filters.created_by
    /\ filters.txid # NoVal => c.txid = filters.txid

\* C17 as stated: getFraudCases called with a viewer's or an analyst's id
\* returns exactly the cases that satisfy every supplied filter and whose
\* created_by or assigned_to equals that user.
C17_ListCreatedOrAssigned ==
    ByViewerOrAnalyst
      => /\ last.res = "ok"
         /\ last.out = {i \in 1..Len(cases) :
                          /\ SatisfiesSupplied(last.input.filters, cases[i])
                          /\ \/ cases[i].created_by = last.input.userId
                             \/ cases[i].assigned_to = last.input.userId}

\* C17 amended: called with an analyst's id, getFraudCases returns exactly the
\* cases the analyst created or is assigned to; called with a viewer's id,
\* exactly the cases assigned to the viewer, so a case the viewer created but
\* is not assigned to is left out. In both a case must also satisfy the
\* filters in force: status, priority, created_by and txid when the value is
\* truthy (an empty txid or a created_by of 0 is ignored), assigned_to when
\* present.
C17_ListViewerAssignedOnly ==
    ByViewerOrAnalyst
      => /\ last.res = "ok"
         /\ last.out = {i \in 1..Len(cases) :
                          /\ SatisfiesSupplied(
                               [last.input.filters EXCEPT
                                  !.txid = IF @ = "" THEN NoVal ELSE @,
                                  !.created_by = IF @ = 0 THEN Undef ELSE @],
                               cases[i])
                          /\ \/ cases[i].assigned_to = last.input.userId
                             \/ /\ RoleOf(last.input.userId) = "analyst"
                                /\ cases[i].created_by = last.input.userId}

\* a viewer listed the cases and a case the viewer created, assigned to
\* someone else, is not in the list while another case is
C17_Witness ==
    /\ last.op = "getFraudCases" /\ last.res = "ok"
    /\ UserExists(last.input.userId)
    /\ RoleOf(last.input.userId) = "viewer"
    /\ last.input.filters = NoFilter
    /\ last.out # {}
    /\ \E i \in 1..Len(cases) :
          /\ cases[i].created_by = last.input.userId
          /\ cases[i].assigned_to = 2
          /\ i \notin last.out

\* C14: getCaseEscalations returns all and only the escalation records of the
\* given case, in the order in which they were appended, including when two
\* records carry the same creation timestamp.
C14_HistoryInAppendOrder ==
    (last.op = "getCaseEscalations" /\ last.res = "ok")
      => last.out = escalationsOf(last.input.caseId)

\* the row a call leaves when it is served on its own on the given row
served(call, row) ==
    IF callOutcome(call, row) = "ok" THEN callData(call, row) ELSE row

\* C15: when two assignCase / updateFraudCase calls on the same case run
\* concurrently, each reading the case and the users and then issuing one
\* write, the final case is one that serving the two calls one after the other
\* in some order would produce.
C15_ConcurrentCallsSerialisable ==
    (/\ \A p \in Slots : flight[p].pc = "done"
     /\ flight[1].base = flight[2].base
     /\ callCase(flight[1].call) = callCase(flight[2].call))
      => cases[callCase(flight[1].call)] \in
            {served(flight[2].call, served(flight[1].call, flight[1].base)),
             served(flight[1].call, served(flight[2].call, flight[1].base))}

\* C21: the escalation ledger is append-only: every step keeps the records
\* present before it, unchanged and in place; the ledger grows only in a
\* successful escalateCase call, by exactly one record, which is the record of
\* that call's case.
C21_LedgerAppendOnly ==
    [][/\ Len(ledger') >= Len(ledger)
       /\ SubSeq(ledger', 1, Len(ledger)) = ledger
       /\ ledger' # ledger => Called("escalateCase") /\ last'.res = "ok"
       /\ (Called("escalateCase") /\ last'.res = "ok")
            => /\ Len(ledger') = Len(ledger) + 1
               /\ ledger'[Len(ledger')].case_id = last'.input.case_id
       /\ \A c \in 1..Len(cases) :
            SubSeq(SelectSeq(ledger', LAMBDA r : r.case_id = c), 1,
                   Len(SelectSeq(ledger, LAMBDA r : r.case_id = c)))
              = SelectSeq(ledger, LAMBDA r : r.case_id = c)]_vars

\* an escalated case was later resolved and closed, and its record is still in
\* the ledger with the status and priority it captured
C21_Witness ==
    /\ last.op = "closeCase" /\ last.res = "ok"
    /\ Len(ledger) > 0
    /\ ledger[1].case_id = last.input.caseId
    /\ ledger[1].new_priority = "critical"
    /\ ledger[1].previous_priority = "medium"
    /\ cases[last.input.caseId].status = "closed"

\* the assignee of the call is missing or is neither investigator nor analyst
BadAssignee(input) ==
    \/ ~UserExists(input.assignedTo)
    \/ RoleOf(input.assignedTo) \notin {"investigator", "analyst"}

\* the assigner of the call is missing or is a viewer
BadAssigner(input) ==
    \/ ~UserExists(input.assignedBy)
    \/ RoleOf(input.assignedBy) \notin {"admin", "investigator", "analyst"}

\* C22: assignCase on an existing case rejects, leaving every case unchanged,
\* whenever the assignee does not exist or is an admin or a viewer, and
\* whenever the assigner does not exist or is a viewer.
C22_AssignRejectsBadParties ==
    [][(Called("assignCase") /\ CaseExists(last'.input.caseId))
        => /\ BadAssignee(last'.input)
                => /\ last'.res \in {"AssigneeNotFound", "AssigneeRole"}
                   /\ cases' = cases
           /\ (~BadAssignee(last'.input) /\ BadAssigner(last'.input))
                => /\ last'.res \in {"AssignerNotFound", "AssignerRole"}
                   /\ cases' = cases]_vars

\* an admin was named as assignee of a resolved case and the call was
\* rejected, the case still resolved and unassigned
C22_Witness ==
    /\ last.op = "assignCase" /\ last.res = "AssigneeRole"
    /\ CaseExists(last.input.caseId)
    /\ UserExists(last.input.assignedTo)
    /\ RoleOf(last.input.assignedTo) = "admin"
    /\ cases[last.input.caseId].status = "resolved"
    /\ cases[last.input.caseId].assigned_to = Null

\* C26: a successful createFraudCase keeps the cases there were and adds
\* exactly one, whose status is open, whose assigned_to is none and whose
\* priority, txid, description and created_by are those of the input; a create
\* whose creator does not exist fails and adds nothing.
C26_CreatePersistsOneOpenCase ==
    [][Called("createFraudCase")
        => /\ last'.res = "ok"
                => /\ Len(cases') = Len(cases) + 1
                   /\ SubSeq(cases', 1, Len(cases)) = cases
                   /\ cases'[Len(cases')].status = "open"
                   /\ cases'[Len(cases')].assigned_to = Null
                   /\ cases'[Len(cases')].priority = last'.input.priority
                   /\ cases'[Len(cases')].txid = last'.input.txid
                   /\ cases'[Len(cases')].description = last'.input.description
                   /\ cases'[Len(cases')].created_by = last'.input.created_by
           /\ ~UserExists(last'.input.created_by)
                => last'.res = "CreatorNotFound" /\ cases' = cases
           /\ last'.res # "ok" => cases' = cases]_vars

\* a second case was created with high priority while the first one had been
\* assigned, and it is open and unassigned
C26_Witness ==
    /\ last.op = "createFraudCase" /\ last.res = "ok"
    /\ Len(cases) = 2
    /\ last.input.priority = "high" /\ last.input.description = "d2"
    /\ cases[2].priority = "high" /\ cases[2].status = "open"
    /\ cases[2].assigned_to = Null
    /\ cases[1].status = "in_progress"

\* C23: a successful updateFraudCase leaves every other case as it was and, in
\* its own case, gives txid, description, status, priority and assigned_to the
\* value of the input when the input carries the field and leaves them as
\* they were when it does not; id and created_by keep their values.
C23_UpdateChangesOnlyGivenFields ==
    [][(Called("updateFraudCase") /\ last'.res = "ok")
        => LET input == last'.input
               old   == cases[input.id]
               new   == cases'[input.id]
           IN  /\ Len(cases') = Len(cases)
               /\ \A i \in 1..Len(cases) : i # input.id => cases'[i] = cases[i]
               /\ new.id = old.id /\ new.created_by = old.created_by
               /\ new.txid = IF input.txid # NoVal THEN input.txid ELSE old.txid
               /\ new.description =
                    IF input.description # NoVal THEN input.description
                                                 ELSE old.description
               /\ new.status = IF input.status # NoVal THEN input.status
                                                       ELSE old.status
               /\ new.priority = IF input.priority # NoVal THEN input.priority
                                                           ELSE old.priority
               /\ new.assigned_to =
                    IF input.assigned_to # Undef THEN input.assigned_to
                                                 ELSE old.assigned_to]_vars

\* the assigned investigator changed the description only: the case is still
\* assigned, in progress and of medium priority, beside a second case
C23_Witness ==
    /\ last.op = "updateFraudCase" /\ last.res = "ok"
    /\ last.input.description = "d2" /\ last.input.assigned_to = Undef
    /\ last.input.userId = 2
    /\ Len(cases) = 2
    /\ cases[1].description = "d2" /\ cases[1].assigned_to = 2
    /\ cases[1].status = "in_progress" /\ cases[1].priority = "medium"

\* the caller passes the checks made before the assignee is looked up
MayUpdate(input) ==
    /\ CaseExists(input.id)
    /\ UserExists(input.userId)
    /\ \/ RoleOf(input.userId) = "admin"
       \/ /\ RoleOf(input.userId) \in {"investigator", "analyst"}
          /\ cases[input.id].assigned_to = input.userId

\* C24: updateFraudCase whose input sets assigned_to to a non-null id of no
\* user fails and changes no field of any case, the other fields of the same
\* input included; by a caller who may update the case it fails with the
\* user-not-found error, and with assigned_to null it succeeds and clears the
\* assignment.
C24_UpdateAssigneeMustExist ==
    [][Called("updateFraudCase")
        => /\ (last'.input.assigned_to \notin {Undef, Null}
                 /\ ~UserExists(last'.input.assigned_to))
                => /\ last'.res # "ok"
                   /\ cases' = cases
                   /\ MayUpdate(last'.input) => last'.res = "AssigneeNotFound"
           /\ (last'.input.assigned_to = Null /\ MayUpdate(last'.input))
                => /\ last'.res = "ok"
                   /\ cases'[last'.input.id].assigned_to = Null]_vars

\* an admin's update naming a missing assignee together with a new status was
\* refused, and the assigned case kept its status
C24_Witness ==
    /\ last.op = "updateFraudCase" /\ last.res = "AssigneeNotFound"
    /\ last.input.assigned_to = GhostUser /\ last.input.status = "resolved"
    /\ cases[last.input.id].status = "in_progress"
    /\ cases[last.input.id].assigned_to = 2

\* C25: the escalation operation itself rejects an empty reason: escalateCase
\* called with reason "" persists no record and changes no case, so every
\* record of the ledger has a non-empty reason.
C25_NoEmptyReason ==
    /\ \A k \in 1..Len(ledger) : ledger[k].reason # ""
    /\ (last.op = "escalateCase" /\ last.input.reason = "") => last.res # "ok"

\* C27: checkPermissions is fail-closed and never raises: it always answers
\* true or false, and for a user id that does not exist, or when the role
\* lookup fails, it answers false for every resource and action; getUserRole
\* then answers null.
C27_PermissionsFailClosed ==
    /\ last.op = "checkPermissions"
         => /\ last.res \in {"true", "false"}
            /\ (~UserExists(last.input.user_id) \/ last.input.db = "down")
                 => last.res = "false"
    /\ (/\ last.op = "getUserRole"
        /\ ~UserExists(last.input.userId) \/ last.input.db = "down")
         => last.res = "null"

\* an admin asked for read on case while the role lookup failed, and was
\* answered false
C27_Witness ==
    /\ last.op = "checkPermissions" /\ last.res = "false"
    /\ last.input.db = "down"
    /\ UserExists(last.input.user_id)
    /\ RoleOf(last.input.user_id) = "admin"
    /\ last.input.action = "read" /\ last.input.resource = "case"

\* C28 as stated: a case's status becomes closed only by a transition out of
\* resolved: the status a case had immediately before it became closed is
\* resolved.
C28_ClosedOnlyFromResolved ==
    [][\A i \in 1..Len(cases) :
          (cases[i].status # "closed" /\ cases'[i].status = "closed")
            => cases[i].status = "resolved"]_vars

\* C28 amended: closeCase closes a case only out of resolved; a case also
\* becomes closed, out of any status, by a successful updateFraudCase whose
\* input carries status closed and by a successful escalateCase whose input
\* carries new_status closed, and in no other way.
C28_ClosedByCloseUpdateOrEscalate ==
    [][\A i \in 1..Len(cases) :
          (cases[i].status # "closed" /\ cases'[i].status = "closed")
            => /\ last'.res = "ok"
               /\ \/ /\ Called("closeCase") /\ last'.input.caseId = i
                     /\ cases[i].status = "resolved"
                  \/ /\ Called("updateFraudCase") /\ last'.input.id = i
                     /\ last'.input.status = "closed"
                  \/ /\ Called("escalateCase") /\ last'.input.case_id = i
                     /\ last'.input.new_status = "closed"]_vars

\* an escalation carrying new_status closed closed a case that was in
\* progress, as its record tells
C28_Witness ==
    /\ last.op = "escalateCase" /\ last.res = "ok"
    /\ last.input.new_status = "closed"
    /\ Len(ledger) > 0
    /\ ledger[Len(ledger)].previous_status = "in_progress"
    /\ cases[last.input.case_id].status = "closed"

\* C29: closeCase reports the invalid-state error only when the case exists
\* and the caller is authorized to close it; a caller who is not authorized
\* gets the permission error whatever the status of the case is.
C29_InvalidStateOnlyForAuthorized ==
    (/\ last.op = "closeCase"
     /\ UserExists(last.input.userId)
     /\ CaseExists(last.input.caseId))
      => /\ last.res = "NotResolved"
              => AuthorizedFor(last.input.userId, cases[last.input.caseId])
         /\ ~AuthorizedFor(last.input.userId, cases[last.input.caseId])
              => last.res = "Insufficient"

\* C30: escalateCase changes the case's assigned_to only when an escalated-to
\* user is provided: when escalated_to is absent or null, the case's
\* assigned_to after the call equals its assigned_to before the call.
C30_EscalateKeepsAssignee ==
    [][(/\ Called("escalateCase") /\ last'.res = "ok"
        /\ last'.input.escalated_to \in {Undef, Null})
        => cases'[last'.input.case_id].assigned_to
             = cases[last'.input.case_id].assigned_to]_vars

----------------------------------------------------------------------------
(* The workload of SpecRef: the calls that name a user, each with an id of  *)
(* the users table and with one that is in no row of it                     *)

RefAssigns == [caseId : {1}, assignedTo : {2, GhostUser}, assignedBy : {1}]

RefUpdates ==
    {UpdateInput(1, 1, [NoUpdate EXCEPT !.assigned_to = a]) :
        a \in {Null, 3, GhostUser}}

RefEscalations ==
    {[EscalateInput(1, to, NoVal, "critical") EXCEPT !.escalated_by = by] :
        to \in {Undef, 3, GhostUser}, by \in {2, GhostUser}}

NextRef ==
    \/ \E input \in CreateInputs : createFraudCase(input)
    \/ \E input \in RefAssigns : assignCase(input)
    \/ \E input \in RefUpdates : updateFraudCase(input)
    \/ \E input \in RefEscalations :
          /\ Len(ledger) < MaxEsc
          /\ escalateCase(input)

SpecRef == Init /\ [][NextRef]_vars

\* C31: in every reachable state each case's assigned_to is none or the id
\* of an existing user, and each escalation record's escalated_by and
\* non-null escalated_to are ids of existing users.
C31_ReferentialIntegrity ==
    /\ \A i \in 1..Len(cases) :
          cases[i].assigned_to # Null => UserExists(cases[i].assigned_to)
    /\ \A k \in 1..Len(ledger) :
          /\ UserExists(ledger[k].escalated_by)
          /\ ledger[k].escalated_to # Null => UserExists(ledger[k].escalated_to)

----------------------------------------------------------------------------
(* closeCase as the database sees it: the selects of the user and of the    *)
(* case with the checks made on what they returned, then one update, with   *)
(* no transaction around them                                               *)

closeSelect(p, input) ==
    /\ flight[p].pc = "idle"
    /\ UNCHANGED <<cases, ledger, esc, clock>>
    /\ IF ~UserExists(input.userId)
         THEN /\ Done("closeCase", input, "UserNotFound")
              /\ UNCHANGED flight
       ELSE IF ~CaseExists(input.caseId)
         THEN /\ Done("closeCase", input, "CaseNotFound")
              /\ UNCHANGED flight
       ELSE IF ~closable(cases[input.caseId])
         THEN /\ Done("closeCase", input, "NotResolved")
              /\ UNCHANGED flight
       ELSE IF ~canClose(input.userId, cases[input.caseId])
         THEN /\ Done("closeCase", input, "Insufficient")
              /\ UNCHANGED flight
       ELSE /\ flight' = [flight EXCEPT ![p] =
                            [pc |-> "checked",
                             call |-> [op |-> "closeCase", input |-> input],
                             base |-> cases[input.caseId]]]
            /\ UNCHANGED last

\* the update statement: it sets status by the case's id alone
closeUpdate(p) ==
    /\ flight[p].pc = "checked"
    /\ flight[p].call.op = "closeCase"
    /\ cases' = [cases EXCEPT ![flight[p].call.input.caseId] =
                    [@ EXCEPT !.status = "closed"]]
    /\ flight' = [flight EXCEPT ![p] = Idle]
    /\ UNCHANGED <<ledger, esc, clock>>
    /\ Done("closeCase", flight[p].call.input, "ok")

----------------------------------------------------------------------------
(* The workload of SpecClose: one closeCase in flight, statement by         *)
(* statement, while assignCase, updateFraudCase and escalateCase calls on   *)
(* the same case are served                                                 *)

CloseAssigns == [caseId : {1}, assignedTo : {2, 3}, assignedBy : {1}]

CloseUpdates ==
    {UpdateInput(1, 1, [NoUpdate EXCEPT !.status = st]) : st \in {"resolved", "open"}}

CloseEscalations ==
    {EscalateInput(1, Undef, st, "critical") : st \in {NoVal, "escalated"}}

CloseCalls == [caseId : {1}, userId : {1, 2, 4}]

NextClose ==
    \/ \E input \in CreateInputs : createFraudCase(input)
    \/ \E input \in CloseAssigns : assignCase(input)
    \/ \E input \in CloseUpdates : updateFraudCase(input)
    \/ \E input \in CloseEscalations :
          /\ Len(ledger) < MaxEsc
          /\ escalateCase(input)
    \/ \E input \in CloseCalls : closeSelect(1, input)
    \/ closeUpdate(1)

SpecClose == Init /\ [][NextClose]_vars

\* C32: when a closeCase runs concurrently with an updateFraudCase,
\* assignCase or escalateCase on the same case, the status that closeCase's
\* write overwrites with 'closed' is 'resolved'.
C32_CloseOverwritesResolved ==
    [][\A p \in Slots :
          (/\ flight[p].pc = "checked"
           /\ flight[p].call.op = "closeCase"
           /\ flight'[p] = Idle)
            => cases[flight[p].call.input.caseId].status = "resolved"]_vars

----------------------------------------------------------------------------
\* C33: immediately after each successful escalateCase, the appended record's
\* new_status equals the case's persisted status and its new_priority equals
\* the case's persisted priority.
C33_RecordAgreesWithCase ==
    [][(Called("escalateCase") /\ last'.res = "ok")
        => /\ ledger'[Len(ledger')].new_status
                 = cases'[last'.input.case_id].status
           /\ ledger'[Len(ledger')].new_priority
                 = cases'[last'.input.case_id].priority]_vars

\* C33 amended: after a successful escalateCase the appended record's
\* new_priority is the case's persisted priority; its new_status is the case's
\* persisted status when the input carries new_status, and otherwise it is
\* 'escalated' while the case keeps the status it had before the call.
C33_RecordAgreesOnPriority ==
    [][(Called("escalateCase") /\ last'.res = "ok")
        => /\ ledger'[Len(ledger')].case_id = last'.input.case_id
           /\ ledger'[Len(ledger')].new_priority
                 = cases'[last'.input.case_id].priority
           /\ IF last'.input.new_status # NoVal
                THEN ledger'[Len(ledger')].new_status
                        = cases'[last'.input.case_id].status
                ELSE /\ ledger'[Len(ledger')].new_status = "escalated"
                     /\ cases'[last'.input.case_id].status
                           = cases[last'.input.case_id].status]_vars

C33_Witness ==
    /\ last.op = "escalateCase" /\ last.res = "ok"
    /\ last.input.new_status = NoVal
    /\ cases[last.input.case_id].status = "in_progress"
    /\ cases[last.input.case_id].priority = "critical"
    /\ ledger[Len(ledger)].new_status = "escalated"
    /\ ledger[Len(ledger)].new_priority = "critical"

----------------------------------------------------------------------------
(* The workload of SpecChain: escalateCase calls on one case and nothing    *)
(* else on it, one of them served statement by statement while another is   *)
(* served                                                                   *)

ChainEscalations ==
    {EscalateInput(1, Undef, st, pr) :
        st \in {"escalated", "resolved"}, pr \in {"high", "critical"}}

NextChain ==
    \/ \E input \in CreateInputs : createFraudCase(input)
    \/ \E input \in ChainEscalations :
          /\ Len(ledger) < MaxHist
          /\ escalateSelect(input)
    \/ escalateInsert
    \/ escalateUpdate
    \/ \E input \in ChainEscalations :
          /\ Len(ledger) < MaxHist
          /\ escalateCase(input)

SpecChain == Init /\ [][NextChain]_vars

\* C34: for two escalateCase calls on the same case with no other operation
\* on that case, once both have returned the later-appended record's
\* previous_status and previous_priority equal the status and priority the
\* case was given by the earlier escalation, in every interleaving of the
\* two calls.
C34_ChainUnderConcurrency ==
    esc.pc = "idle"
      => \A k \in 1..(Len(ledger) - 1) :
            ledger[k + 1].case_id = ledger[k].case_id
              => /\ ledger[k + 1].previous_status = ledger[k].new_status
                 /\ ledger[k + 1].previous_priority = ledger[k].new_priority

----------------------------------------------------------------------------
\* the user created the case or is its assignee
OwnCase(u, i) == cases[i].created_by = u \/ cases[i].assigned_to = u

\* C35: for every user and every existing case, getFraudCaseById returns the
\* case if and only if getFraudCaseByTxid returns it if and only if it is in
\* the result of getFraudCases with no filters for that user.
C35_ReadPathsAgree ==
    \A u \in UserIds : \A i \in 1..Len(cases) :
       /\ getFraudCaseById(i, u) = "ok"
             <=> getFraudCaseByTxid(cases[i].txid, u) = "ok"
       /\ getFraudCaseByTxid(cases[i].txid, u) = "ok"
             <=> i \in fraudCasesOf(NoFilter, u)

\* C35 amended: the three read paths agree for an administrator, who gets
\* every case from each, and for any user on a case assigned to that user.
\* Otherwise each path has its own rule: getFraudCaseById returns every case
\* to a viewer and to an investigator or analyst only the cases they created
\* or are assigned to; getFraudCaseByTxid returns every case to an
\* investigator or analyst and to a viewer only the cases the viewer created
\* or is assigned to; getFraudCases with no filters lists every case for an
\* investigator, for an analyst the cases created by or assigned to the
\* analyst, and for a viewer only the cases assigned to the viewer.
C35_ReadPathsPerRole ==
    \A u \in UserIds : \A i \in 1..Len(cases) :
       /\ getFraudCaseById(i, u) = "ok"
             <=> (usersTable[u] \in {"admin", "viewer"} \/ OwnCase(u, i))
       /\ getFraudCaseByTxid(cases[i].txid, u) = "ok"
             <=> (usersTable[u] \in {"admin", "investigator", "analyst"}
                     \/ OwnCase(u, i))
       /\ i \in fraudCasesOf(NoFilter, u)
             <=> \/ usersTable[u] \in {"admin", "investigator"}
                 \/ usersTable[u] = "analyst" /\ OwnCase(u, i)
                 \/ usersTable[u] = "viewer" /\ cases[i].assigned_to = u

C35_Witness ==
    /\ last.op = "getFraudCases" /\ last.res = "ok"
    /\ last.input.userId = 3 /\ last.input.filters = NoFilter
    /\ \E i \in 1..Len(cases) :
          /\ i \notin last.out
          /\ getFraudCaseById(i, 3) = "null"
          /\ getFraudCaseByTxid(cases[i].txid, 3) = "ok"
    /\ \E j \in 1..Len(cases) :
          /\ j \in last.out
          /\ getFraudCaseById(j, 3) = "ok"
          /\ getFraudCaseByTxid(cases[j].txid, 3) = "ok"

----------------------------------------------------------------------------
\* what checkPermissions answers on assigning cases for the user
MayAssignByMatrix(u) ==
    checkPermissions([user_id |-> u, action |-> "assign", resource |-> "case"])

----------------------------------------------------------------------------
----------------------------------------------------------------------------
(* The workload of SpecAssignee: the three handlers that write assigned_to, *)
(* each naming users of every role and one that does not exist              *)

AssigneeAssigns == [caseId : {1}, assignedTo : AnyUser, assignedBy : {1}]

AssigneeUpdates ==
    {UpdateInput(1, 1, [NoUpdate EXCEPT !.assigned_to = a]) :
        a \in {Null, 1, 4, GhostUser}}

AssigneeEscalations ==
    {EscalateInput(1, to, NoVal, "critical") : to \in {Undef, 1, 4, GhostUser}}

NextAssignee ==
    \/ \E input \in CreateInputs : createFraudCase(input)
    \/ \E input \in AssigneeAssigns : assignCase(input)
    \/ \E input \in AssigneeUpdates : updateFraudCase(input)
    \/ \E input \in AssigneeEscalations :
          /\ Len(ledger) < MaxEsc
          /\ escalateCase(input)

SpecAssignee == Init /\ [][NextAssignee]_vars

\* C38: in every state reachable through the handlers, a case's non-null
\* assigned_to is a user whose role is investigator or analyst, whichever of
\* assignCase, updateFraudCase or escalateCase last set it.
C38_AssigneeIsInvestigatorOrAnalyst ==
    \A i \in 1..Len(cases) :
       cases[i].assigned_to # Null
         => /\ UserExists(cases[i].assigned_to)
            /\ RoleOf(cases[i].assigned_to) \in {"investigator", "analyst"}

\* C38 amended: the assignee a successful assignCase leaves is a user whose
\* role is investigator or analyst; the non-null assignee a successful
\* updateFraudCase leaves is the input's assigned_to, an existing user of any
\* role; the assignee a successful escalateCase with escalated_to leaves is
\* that id, whatever its role and whether or not such a user exists.
C38_AssigneePerHandler ==
    /\ (last.op = "assignCase" /\ last.res = "ok")
         => /\ cases[last.input.caseId].assigned_to = last.input.assignedTo
            /\ UserExists(last.input.assignedTo)
            /\ RoleOf(last.input.assignedTo) \in {"investigator", "analyst"}
    /\ (/\ last.op = "updateFraudCase" /\ last.res = "ok"
        /\ last.input.assigned_to \notin {Undef, Null})
         => /\ cases[last.input.id].assigned_to = last.input.assigned_to
            /\ UserExists(last.input.assigned_to)
    /\ (/\ last.op = "escalateCase" /\ last.res = "ok"
        /\ last.input.escalated_to # Undef)
         => cases[last.input.case_id].assigned_to = last.input.escalated_to

C38_Witness ==
    /\ last.op = "updateFraudCase" /\ last.res = "ok"
    /\ last.input.assigned_to = 4
    /\ cases[last.input.id].assigned_to = 4
    /\ RoleOf(4) = "viewer"
    /\ Len(ledger) > 0
    /\ ledger[1].escalated_to = 1

----------------------------------------------------------------------------
\* the handlers that write to the store
Writers == {"createFraudCase", "assignCase", "updateFraudCase",
            "escalateCase", "closeCase"}

\* C39: when createFraudCase, assignCase, updateFraudCase, escalateCase or
\* closeCase returns an error (missing case or user, invalid role, permission
\* denied, non-resolved status, duplicate txid), the set of cases with all
\* their fields and the escalation ledger are exactly as before the call.
C39_FailingCallChangesNothing ==
    [][(last'.op \in Writers /\ last'.res # "ok")
        => /\ cases' = cases
           /\ ledger' = ledger]_vars

C39_Witness ==
    /\ last.op = "assignCase" /\ last.res = "AssignerRole"
    /\ CaseExists(last.input.caseId)
    /\ cases[last.input.caseId].status = "escalated"
    /\ cases[last.input.caseId].assigned_to # last.input.assignedTo
    /\ Len(ledger) > 0

====
